---- MODULE Spec2Model ----
(***************************************************************************)
(* The SDK validation engine of community-scripts: the reference store     *)
(* loaded by SDKValidator (src/validate/base.ts) and validateSDKScript,    *)
(* which compares one SDK-reported script descriptor with the deployment   *)
(* record of the same name.                                                *)
(*                                                                         *)
(* Encoding of the TypeScript values:                                      *)
(*   - a hex string or an index string is the sequence of its characters;  *)
(*     '' is << >>;                                                        *)
(*   - a value that may be undefined/null is a sequence of length 0 or 1:  *)
(*     Absent for undefined, Some(v) for v;                                *)
(*   - a JS number is [nan |-> BOOLEAN, val |-> Nat];                      *)
(*   - a template string is the tuple of its literal pieces and its        *)
(*     interpolated values, in order;                                      *)
(*   - the deployments Map is a function whose DOMAIN is the set of keys.  *)
(***************************************************************************)
EXTENDS Integers, Sequences, FiniteSets, TLC

VARIABLES
    ctor,          \* outcome of the constructor: "ok" or "threw" ("none"
                   \* while a DynamicSDKTester has not built a validator)
    dir,           \* the deployments directory the constructor read
    deployments,   \* SDKValidator.deployments : Map<string, ScriptDeployment>
    call,          \* arguments of the validateSDKScript call in progress
    result,        \* the ValidationResult it returned
    seen,          \* observer's record: the first result of each call made
    console,       \* the lines written with console.error
    batch,         \* the validate() call in progress and what it returned
    test           \* the testSDK call in progress and how it ended

vars == <<ctor, dir, deployments, call, result, seen, console, batch, test>>

\* the validator object
validatorVars == <<ctor, dir, deployments>>

----------------------------------------------------------------------------
(* Optional values                                                         *)

Absent == << >>

Some(v) == <<v>>

Get(o) == o[1]

----------------------------------------------------------------------------
(* Bounds                                                                  *)

\* longest cellDeps list an SDK descriptor reports
MaxDeps == 2

----------------------------------------------------------------------------
(* src/type/deployment.ts                                                  *)

HashTypes == {"data", "data1", "data2", "type"}

HashTypeType == "type"

DepTypes == {"code", "dep_group"}

Networks == {"mainnet", "testnet"}

----------------------------------------------------------------------------
(* String.prototype.toLowerCase on the characters hex digests use          *)

LowerChar(c) ==
    CASE c = "A" -> "a"
      [] c = "B" -> "b"
      [] c = "C" -> "c"
      [] c = "D" -> "d"
      [] c = "E" -> "e"
      [] c = "F" -> "f"
      [] c = "X" -> "x"
      [] OTHER -> c

ToLowerCase(s) == [i \in DOMAIN s |-> LowerChar(s[i])]

\* (v || '') for a string that may be undefined
OrEmpty(o) == IF o = Absent THEN << >> ELSE Get(o)

----------------------------------------------------------------------------
(* Unary plus on a string: Number(s), for strings made of decimal digits,  *)
(* hex digits and x (no whitespace, sign, point or exponent).              *)

NaN == [nan |-> TRUE, val |-> 0]

Num(n) == [nan |-> FALSE, val |-> n]

DecDigits == {"0", "1", "2", "3", "4", "5", "6", "7", "8", "9"}

HexDigits == DecDigits \cup {"a", "b", "c", "d", "e", "f",
                             "A", "B", "C", "D", "E", "F"}

DigitValue(c) ==
    CASE c = "0" -> 0 [] c = "1" -> 1 [] c = "2" -> 2 [] c = "3" -> 3
      [] c = "4" -> 4 [] c = "5" -> 5 [] c = "6" -> 6 [] c = "7" -> 7
      [] c = "8" -> 8 [] c = "9" -> 9
      [] c \in {"a", "A"} -> 10 [] c \in {"b", "B"} -> 11
      [] c \in {"c", "C"} -> 12 [] c \in {"d", "D"} -> 13
      [] c \in {"e", "E"} -> 14 [] c \in {"f", "F"} -> 15

RECURSIVE DigitsValue(_, _, _)
DigitsValue(s, base, acc) ==
    IF s = << >> THEN acc
    ELSE DigitsValue(Tail(s), base, acc * base + DigitValue(Head(s)))


\* ToNumber as parseInt(s, 10) would do it: the leading decimal digits
RECURSIVE LeadingDigits(_)
LeadingDigits(s) ==
    IF s = << >> \/ Head(s) \notin DecDigits THEN << >>
    ELSE <<Head(s)>> \o LeadingDigits(Tail(s))

ToNumberParseInt10(s) ==
    IF LeadingDigits(s) = << >> THEN NaN
    ELSE Num(DigitsValue(LeadingDigits(s), 10, 0))

ToNumber(s) ==
    IF s = << >> THEN Num(0)
    ELSE IF Len(s) >= 2 /\ s[1] = "0" /\ s[2] \in {"x", "X"}
    THEN IF Len(s) >= 3 /\ \A i \in 3..Len(s) : s[i] \in HexDigits
         THEN Num(DigitsValue(SubSeq(s, 3, Len(s)), 16, 0))
         ELSE NaN
    ELSE IF \A i \in 1..Len(s) : s[i] \in DecDigits
    THEN Num(DigitsValue(s, 10, 0))
    ELSE NaN

\* +v for a string that may be undefined: +undefined is NaN
ToNumberOpt(o) == IF o = Absent THEN NaN ELSE ToNumber(Get(o))

\* a !== b on numbers: NaN differs from everything, itself included
NumNotEqual(a, b) == a.nan \/ b.nan \/ a.val # b.val

\* (v || '0') for an index string that may be undefined or ''
OrZero(o) == IF o = Absent \/ Get(o) = << >> THEN <<"0">> ELSE Get(o)

----------------------------------------------------------------------------
(* loadDeployments                                                         *)

EmptyMap == [n \in {} |-> Absent]

EndsWithJson(file) == file.ext = ".json"

\* MapSet leaving an entry that is already there as it is
MapSetKeepFirst(map, key, value) ==
    [k \in DOMAIN map \cup {key} |->
        IF k \in DOMAIN map THEN map[k] ELSE value]

\* this.deployments.set(deployment.name, deployment)
MapSet(map, key, value) ==
    [k \in DOMAIN map \cup {key} |-> IF k = key THEN value ELSE map[k]]

\* LoadFrom passing over a file whose content is not JSON
RECURSIVE LoadFromSkipMalformed(_, _, _)
LoadFromSkipMalformed(files, i, map) ==
    IF i > Len(files) THEN [threw |-> FALSE, deployments |-> map]
    ELSE IF ~(files[i].ext = ".json") \/ files[i].content = Absent
    THEN LoadFromSkipMalformed(files, i + 1, map)
    ELSE LoadFromSkipMalformed(files, i + 1,
             [k \in DOMAIN map \cup {Get(files[i].content).name} |->
                 IF k = Get(files[i].content).name
                 THEN Get(files[i].content) ELSE map[k]])

\* The for loop over readdirSync's listing, from file number i on.  A file
\* whose content is not JSON (content = Absent) makes JSON.parse throw.
RECURSIVE LoadFrom(_, _, _)
LoadFrom(files, i, map) ==
    IF i > Len(files) THEN [threw |-> FALSE, deployments |-> map]
    ELSE IF ~EndsWithJson(files[i]) THEN LoadFrom(files, i + 1, map)
    ELSE IF files[i].content = Absent
    THEN [threw |-> TRUE, deployments |-> map]
    ELSE LET deployment == Get(files[i].content)
         IN LoadFrom(files, i + 1, MapSet(map, deployment.name, deployment))

LoadDeployments(files) == LoadFrom(files, 1, EmptyMap)

\* a directory: readdirSync throws on one that cannot be read
Directory(files) == [readable |-> TRUE, files |-> files]

Unreadable == [readable |-> FALSE, files |-> << >>]

\* constructor: loadDeployments(deploymentsDir || defaultPath)
Construct(d) ==
    IF d.readable THEN LoadDeployments(d.files)
    ELSE [threw |-> TRUE, deployments |-> EmptyMap]

----------------------------------------------------------------------------
(* validateSDKScript: the error messages                                   *)

ErrNotFound(scriptName) ==
    <<"Script '", scriptName, "' not found in deployments">>

ErrNoNetwork(network, scriptName) ==
    <<"No ", network, " configuration found for script '", scriptName, "'">>

ErrMissingHash(network, scriptName) ==
    <<"Missing required hash fields in ", network,
      " configuration for script '", scriptName, "'">>

ErrCodeHash(expected, got) ==
    <<"CodeHash mismatch: expected ", expected, ", got ", got>>

ErrHashType(expected, got) ==
    <<"HashType mismatch: expected ", expected, ", got ", got>>

ErrCount(expected, got) ==
    <<"CellDeps count mismatch: expected ", expected, ", got ", got>>

ErrMissingOutPoint(i) == <<"CellDep ", i, " is missing outPoint">>

ErrTxHash(i, expected, got) ==
    <<"CellDep ", i, " txHash mismatch: expected ", expected, ", got ", got>>

ErrIndex(i, expected, got) ==
    <<"CellDep ", i, " index mismatch: expected ", expected, ", got ", got>>

----------------------------------------------------------------------------
(* validateSDKScript: the steps                                            *)

NewResult(scriptName, network) ==
    [isValid |-> TRUE, errors |-> << >>, warnings |-> << >>,
     scriptName |-> scriptName, network |-> network]

\* this.deployments.get(scriptName)
GetDeployment(deps, scriptName) ==
    IF scriptName \in DOMAIN deps THEN Some(deps[scriptName]) ELSE Absent


\* NotFound without the assignment to isValid
NotFoundKeepsValid(r, scriptName) ==
    [r EXCEPT !.errors = Append(@, ErrNotFound(scriptName))]

NotFound(r, scriptName) ==
    [r EXCEPT !.isValid = FALSE,
              !.errors = Append(@, ErrNotFound(scriptName))]


\* SelectNetwork with the two branches exchanged
SelectNetworkSwapped(deployment, network) ==
    IF network = "mainnet" THEN deployment.testnet ELSE deployment.mainnet

\* network === 'mainnet' ? deployment.mainnet : deployment.testnet
SelectNetwork(deployment, network) ==
    IF network = "mainnet" THEN deployment.mainnet ELSE deployment.testnet

NoNetwork(r, network, scriptName) ==
    [r EXCEPT !.isValid = FALSE,
              !.errors = Append(@, ErrNoNetwork(network, scriptName))]

\* deploymentInfo.dataHash == null || deploymentInfo.typeHash == null
MissingHashFields(deploymentInfo) ==
    deploymentInfo.dataHash = Absent \/ deploymentInfo.typeHash = Absent

MissingHash(r, network, scriptName) ==
    [r EXCEPT !.isValid = FALSE,
              !.errors = Append(@, ErrMissingHash(network, scriptName))]


\* ExpectedScript with the two hashes exchanged
ExpectedScriptSwapped(deploymentInfo, sdkScriptInfo) ==
    IF sdkScriptInfo.hashType = HashTypeType
    THEN [codeHash |-> OrEmpty(deploymentInfo.dataHash),
          hashType |-> HashTypeType,
          cellDeps |-> deploymentInfo.cellDeps]
    ELSE [codeHash |-> OrEmpty(deploymentInfo.typeHash),
          hashType |-> sdkScriptInfo.hashType,
          cellDeps |-> deploymentInfo.cellDeps]

\* ExpectedScript expecting hashType data of every data-family descriptor
ExpectedScriptDataType(deploymentInfo, sdkScriptInfo) ==
    IF sdkScriptInfo.hashType = HashTypeType
    THEN [codeHash |-> OrEmpty(deploymentInfo.typeHash),
          hashType |-> HashTypeType,
          cellDeps |-> deploymentInfo.cellDeps]
    ELSE [codeHash |-> OrEmpty(deploymentInfo.dataHash),
          hashType |-> "data",
          cellDeps |-> deploymentInfo.cellDeps]

ExpectedScript(deploymentInfo, sdkScriptInfo) ==
    IF sdkScriptInfo.hashType = HashTypeType
    THEN [codeHash |-> OrEmpty(deploymentInfo.typeHash),
          hashType |-> HashTypeType,
          cellDeps |-> deploymentInfo.cellDeps]
    ELSE [codeHash |-> OrEmpty(deploymentInfo.dataHash),
          hashType |-> sdkScriptInfo.hashType,
          cellDeps |-> deploymentInfo.cellDeps]


\* CheckCodeHash without the assignment to isValid
CheckCodeHashKeepsValid(r, sdkScriptInfo, expectedScript) ==
    LET sdkCodeHash == OrEmpty(sdkScriptInfo.codeHash)
        expectedCodeHash == expectedScript.codeHash
    IN IF ToLowerCase(sdkCodeHash) # ToLowerCase(expectedCodeHash)
       THEN [r EXCEPT !.errors = Append(@, ErrCodeHash(expectedCodeHash,
                                                       sdkCodeHash))]
       ELSE r

\* CheckCodeHash comparing the two strings as they are
CheckCodeHashCaseSensitive(r, sdkScriptInfo, expectedScript) ==
    LET sdkCodeHash == OrEmpty(sdkScriptInfo.codeHash)
        expectedCodeHash == expectedScript.codeHash
    IN IF sdkCodeHash # expectedCodeHash
       THEN [r EXCEPT !.isValid = FALSE,
                      !.errors = Append(@, ErrCodeHash(expectedCodeHash,
                                                       sdkCodeHash))]
       ELSE r

CheckCodeHash(r, sdkScriptInfo, expectedScript) ==
    LET sdkCodeHash == OrEmpty(sdkScriptInfo.codeHash)
        expectedCodeHash == expectedScript.codeHash
    IN IF ToLowerCase(sdkCodeHash) # ToLowerCase(expectedCodeHash)
       THEN [r EXCEPT !.isValid = FALSE,
                      !.errors = Append(@, ErrCodeHash(expectedCodeHash,
                                                       sdkCodeHash))]
       ELSE r

CheckHashType(r, sdkScriptInfo, expectedScript) ==
    IF sdkScriptInfo.hashType # expectedScript.hashType
    THEN [r EXCEPT !.isValid = FALSE,
                   !.errors = Append(@, ErrHashType(expectedScript.hashType,
                                                    sdkScriptInfo.hashType))]
    ELSE r


\* CheckTxHash comparing the two strings as they are
CheckTxHashCaseSensitive(r, i, expectedOutPoint, actualOutPoint) ==
    IF OrEmpty(actualOutPoint.txHash) # OrEmpty(expectedOutPoint.txHash)
    THEN [r EXCEPT !.isValid = FALSE,
                   !.errors = Append(@, ErrTxHash(i, expectedOutPoint.txHash,
                                                  actualOutPoint.txHash))]
    ELSE r

\* the txHash comparison of iteration i
CheckTxHash(r, i, expectedOutPoint, actualOutPoint) ==
    IF ToLowerCase(OrEmpty(actualOutPoint.txHash))
         # ToLowerCase(OrEmpty(expectedOutPoint.txHash))
    THEN [r EXCEPT !.isValid = FALSE,
                   !.errors = Append(@, ErrTxHash(i, expectedOutPoint.txHash,
                                                  actualOutPoint.txHash))]
    ELSE r


\* CheckIndex comparing the two index strings instead of their numbers
CheckIndexAsString(r, i, expectedOutPoint, actualOutPoint) ==
    IF OrZero(actualOutPoint.index) # OrZero(expectedOutPoint.index)
    THEN [r EXCEPT !.isValid = FALSE,
                   !.errors = Append(@,
                       ErrIndex(i, ToNumberOpt(expectedOutPoint.index),
                                ToNumberOpt(actualOutPoint.index)))]
    ELSE r

\* the index comparison of iteration i
CheckIndex(r, i, expectedOutPoint, actualOutPoint) ==
    IF NumNotEqual(ToNumber(OrZero(actualOutPoint.index)),
                   ToNumber(OrZero(expectedOutPoint.index)))
    THEN [r EXCEPT !.isValid = FALSE,
                   !.errors = Append(@,
                       ErrIndex(i, ToNumberOpt(expectedOutPoint.index),
                                ToNumberOpt(actualOutPoint.index)))]
    ELSE r


\* CheckCellDep with the index comparison ahead of the txHash comparison
CheckCellDepIndexFirst(r, i, expected, actual) ==
    IF expected.outPoint = Absent \/ actual.outPoint = Absent
    THEN [r EXCEPT !.isValid = FALSE,
                   !.errors = Append(@, ErrMissingOutPoint(i))]
    ELSE CheckTxHash(CheckIndex(r, i, Get(expected.outPoint),
                                Get(actual.outPoint)),
                     i, Get(expected.outPoint), Get(actual.outPoint))

\* the body of the for loop, for JS index i
CheckCellDep(r, i, expected, actual) ==
    IF expected.outPoint = Absent \/ actual.outPoint = Absent
    THEN [r EXCEPT !.isValid = FALSE,
                   !.errors = Append(@, ErrMissingOutPoint(i))]
    ELSE CheckIndex(CheckTxHash(r, i, Get(expected.outPoint),
                                Get(actual.outPoint)),
                    i, Get(expected.outPoint), Get(actual.outPoint))

\* CellDepsLoop leaving the loop at an element without outPoint
RECURSIVE CellDepsLoopBreaks(_, _, _, _)
CellDepsLoopBreaks(r, i, expectedDeps, actualDeps) ==
    IF i < Len(expectedDeps)
    THEN IF expectedDeps[i + 1].outPoint = Absent
              \/ actualDeps[i + 1].outPoint = Absent
         THEN [r EXCEPT !.isValid = FALSE,
                        !.errors = Append(@, ErrMissingOutPoint(i))]
         ELSE CellDepsLoopBreaks(
                  CheckIndex(CheckTxHash(r, i,
                                         Get(expectedDeps[i + 1].outPoint),
                                         Get(actualDeps[i + 1].outPoint)),
                             i, Get(expectedDeps[i + 1].outPoint),
                             Get(actualDeps[i + 1].outPoint)),
                  i + 1, expectedDeps, actualDeps)
    ELSE r

\* for (let i = 0; i < expectedScript.cellDeps.length; i++), from i on
RECURSIVE CellDepsLoop(_, _, _, _)
CellDepsLoop(r, i, expectedDeps, actualDeps) ==
    IF i < Len(expectedDeps)
    THEN CellDepsLoop(CheckCellDep(r, i, expectedDeps[i + 1],
                                   actualDeps[i + 1]),
                      i + 1, expectedDeps, actualDeps)
    ELSE r


\* CheckCellDeps going on to the positional comparison of the common prefix
\* after a count mismatch
CheckCellDepsNoShortCircuit(r, sdkScriptInfo, expectedScript) ==
    IF sdkScriptInfo.cellDeps # Absent /\ expectedScript.cellDeps # Absent
    THEN LET actualDeps == Get(sdkScriptInfo.cellDeps)
             expectedDeps == Get(expectedScript.cellDeps)
             n == IF Len(actualDeps) < Len(expectedDeps)
                  THEN Len(actualDeps) ELSE Len(expectedDeps)
         IN IF Len(actualDeps) # Len(expectedDeps)
            THEN CellDepsLoop(
                     [r EXCEPT !.isValid = FALSE,
                               !.errors = Append(@,
                                   ErrCount(Len(expectedDeps),
                                            Len(actualDeps)))],
                     0, SubSeq(expectedDeps, 1, n), SubSeq(actualDeps, 1, n))
            ELSE CellDepsLoop(r, 0, expectedDeps, actualDeps)
    ELSE r

\* CheckCellDeps taking a list that is not there for the empty list
CheckCellDepsAbsentAsEmpty(r, sdkScriptInfo, expectedScript) ==
    LET actualDeps == IF sdkScriptInfo.cellDeps = Absent THEN << >>
                      ELSE Get(sdkScriptInfo.cellDeps)
        expectedDeps == IF expectedScript.cellDeps = Absent THEN << >>
                        ELSE Get(expectedScript.cellDeps)
    IN IF Len(actualDeps) # Len(expectedDeps)
       THEN [r EXCEPT !.isValid = FALSE,
                      !.errors = Append(@, ErrCount(Len(expectedDeps),
                                                    Len(actualDeps)))]
       ELSE CellDepsLoop(r, 0, expectedDeps, actualDeps)

\* if (sdkScriptInfo.cellDeps && expectedScript.cellDeps): the count
\* comparison, then the loop
CheckCellDeps(r, sdkScriptInfo, expectedScript) ==
    IF sdkScriptInfo.cellDeps # Absent /\ expectedScript.cellDeps # Absent
    THEN LET actualDeps == Get(sdkScriptInfo.cellDeps)
             expectedDeps == Get(expectedScript.cellDeps)
         IN IF Len(actualDeps) # Len(expectedDeps)
            THEN [r EXCEPT !.isValid = FALSE,
                           !.errors = Append(@, ErrCount(Len(expectedDeps),
                                                         Len(actualDeps)))]
            ELSE CellDepsLoop(r, 0, expectedDeps, actualDeps)
    ELSE r

ValidateSDKScript(deps, scriptName, network, sdkScriptInfo) ==
    LET r0 == NewResult(scriptName, network)
        deployment == GetDeployment(deps, scriptName)
    IN IF deployment = Absent THEN NotFound(r0, scriptName)
       ELSE LET deploymentInfo == SelectNetwork(Get(deployment), network)
            IN IF deploymentInfo = Absent
               THEN NoNetwork(r0, network, scriptName)
               ELSE IF MissingHashFields(Get(deploymentInfo))
               THEN MissingHash(r0, network, scriptName)
               ELSE LET expectedScript ==
                            ExpectedScript(Get(deploymentInfo), sdkScriptInfo)
                    IN CheckCellDeps(
                           CheckHashType(
                               CheckCodeHash(r0, sdkScriptInfo,
                                             expectedScript),
                               sdkScriptInfo, expectedScript),
                           sdkScriptInfo, expectedScript)

----------------------------------------------------------------------------
(* The values the checks range over                                        *)

HexLowerAB == <<"a", "b">>

HexUpperAB == <<"A", "B">>

HexLowerCD == <<"c", "d">>

HexMixedCD == <<"C", "d">>

OutPoint(txHash, index) == [txHash |-> Some(txHash), index |-> Some(index)]

CellDep(depType, outPoint) == [depType |-> depType, outPoint |-> outPoint]

\* out-points an SDK reports: against each reference out-point below there is
\* one equal up to letter case and number base, one differing in txHash
\* only, one in index only, and one in both
SDKOutPoints ==
    {OutPoint(HexLowerAB, <<"1">>),
     OutPoint(HexUpperAB, <<"0", "x", "1">>),
     OutPoint(HexLowerCD, <<"0", "x", "1">>),
     OutPoint(HexUpperAB, <<"2">>),
     OutPoint(HexLowerCD, <<"2">>)}

SDKCellDeps ==
    {CellDep(t, o) : t \in DepTypes,
                     o \in {Absent} \cup {Some(p) : p \in SDKOutPoints}}

SeqsUpTo(S, n) == UNION {[1..k -> S] : k \in 0..n}

SDKCodeHashes ==
    {Absent, Some(HexLowerAB), Some(HexUpperAB), Some(HexLowerCD)}

\* the ScriptInfo values an adapter hands to validateSDKScript
SDKScriptInfos ==
    [codeHash : SDKCodeHashes,
     hashType : HashTypes,
     cellDeps : {Absent} \cup {Some(l) : l \in SeqsUpTo(SDKCellDeps, MaxDeps)}]

KnownNames == {"always_success", "xudt"}

ScriptNames == KnownNames \cup {"foo"}

RefDepGroup == CellDep("dep_group", Some(OutPoint(HexUpperAB, <<"0", "x", "1">>)))

RefCode == CellDep("code", Some(OutPoint(HexLowerCD, <<"2">>)))

RefNoOutPoint == CellDep("code", Absent)

DeploymentInfo(dataHash, typeHash, cellDeps) ==
    [dataHash |-> dataHash, typeHash |-> typeHash, cellDeps |-> cellDeps]

\* network sub-records with both hashes, over the shapes of cellDeps
FullInfos ==
    {DeploymentInfo(Some(HexUpperAB), Some(HexMixedCD), c) :
        c \in {Absent, Some(<< >>), Some(<<RefDepGroup>>),
               Some(<<RefNoOutPoint>>), Some(<<RefDepGroup, RefCode>>),
               Some(<<RefCode, RefNoOutPoint>>)}}

\* network sub-records that lack a hash
PartialInfos ==
    {DeploymentInfo(Absent, Some(HexMixedCD), Some(<<RefDepGroup>>)),
     DeploymentInfo(Some(HexUpperAB), Absent, Some(<<RefDepGroup>>)),
     DeploymentInfo(Absent, Absent, Some(<<RefDepGroup>>))}

RefInfos == FullInfos \cup PartialInfos

ScriptDeployment(name, mainnet, testnet) ==
    [name |-> name, mainnet |-> mainnet, testnet |-> testnet]

JsonFile(stem, content) == [stem |-> stem, ext |-> ".json", content |-> content]

OtherFile(stem) == [stem |-> stem, ext |-> ".md", content |-> Absent]

\* deployment directories: a main-net-only and a both-networks record for
\* every sub-record; a listing with a non-JSON file and a repeated name; a
\* listing with a file that is not JSON
Directories ==
    {<<JsonFile("always_success",
                Some(ScriptDeployment("always_success", Some(i), Absent))),
       JsonFile("xudt",
                Some(ScriptDeployment("xudt",
                        Some(DeploymentInfo(Some(HexLowerAB),
                                            Some(HexLowerCD),
                                            Some(<<RefCode>>))),
                        Some(i))))>> : i \in RefInfos}
    \cup
    {<<JsonFile("a",
                Some(ScriptDeployment("xudt", Absent, Absent))),
       OtherFile("README"),
       JsonFile("b",
                Some(ScriptDeployment("xudt", Absent,
                        Some(DeploymentInfo(Some(HexLowerAB),
                                            Some(HexLowerCD),
                                            Some(<<RefCode>>))))))>>,
     <<JsonFile("always_success",
                Some(ScriptDeployment("always_success", Absent, Absent))),
       JsonFile("broken", Absent)>>}

----------------------------------------------------------------------------
(* The state machine                                                       *)

\* new SDKValidator(deploymentsDir): the constructor runs loadDeployments
Init ==
    \E files \in Directories :
        LET loaded == Construct(Directory(files))
        IN /\ ctor = IF loaded.threw THEN "threw" ELSE "ok"
           /\ dir = Directory(files)
           /\ deployments = loaded.deployments
           /\ call = Absent
           /\ result = Absent
           /\ seen = << >>
           /\ console = << >>
           /\ batch = Absent
           /\ test = Absent

\* one call of validateSDKScript on a constructed validator
Validate ==
    /\ ctor = "ok"
    /\ call = Absent
    /\ batch = Absent
    /\ \E scriptName \in ScriptNames, network \in Networks,
          sdkScriptInfo \in SDKScriptInfos :
          /\ call' = Some([scriptName |-> scriptName, network |-> network,
                           sdkScriptInfo |-> sdkScriptInfo])
          /\ result' = Some(ValidateSDKScript(deployments, scriptName,
                                              network, sdkScriptInfo))
    /\ UNCHANGED <<validatorVars, seen, console, batch, test>>

\* the caller takes the result; the validator is ready for the next call
Return ==
    /\ call # Absent
    /\ call' = Absent
    /\ result' = Absent
    /\ UNCHANGED <<validatorVars, seen, console, batch, test>>

Next == Validate \/ Return

Spec == Init /\ [][Next]_vars

----------------------------------------------------------------------------
(* Vocabulary of the properties                                            *)

Returned == call # Absent /\ result # Absent

Args == Get(call)

Res == Get(result)

\* the deployment record and the network sub-record the call is about
KnownScript == Returned /\ Args.scriptName \in DOMAIN deployments

RefRecord == deployments[Args.scriptName]

RefInfoOpt ==
    IF Args.network = "mainnet" THEN RefRecord.mainnet ELSE RefRecord.testnet

OtherInfoOpt ==
    IF Args.network = "mainnet" THEN RefRecord.testnet ELSE RefRecord.mainnet

HasInfo == KnownScript /\ RefInfoOpt # Absent

RefInfo == Get(RefInfoOpt)

\* the call got past the three early returns
Compared ==
    HasInfo /\ RefInfo.dataHash # Absent /\ RefInfo.typeHash # Absent

\* the hash of the variant the descriptor's hashType selects
SelectedHashOpt ==
    IF Args.sdkScriptInfo.hashType = "type"
    THEN RefInfo.typeHash ELSE RefInfo.dataHash

SDKHash == OrEmpty(Args.sdkScriptInfo.codeHash)

BothDepLists ==
    Compared /\ Args.sdkScriptInfo.cellDeps # Absent
             /\ RefInfo.cellDeps # Absent

SDKDeps == Get(Args.sdkScriptInfo.cellDeps)

RefDeps == Get(RefInfo.cellDeps)

IsCodeHashErr(e) == e[1] = "CodeHash mismatch: expected "

IsHashTypeErr(e) == e[1] = "HashType mismatch: expected "

IsCountErr(e) == e[1] = "CellDeps count mismatch: expected "

IsPerIndexErr(e) == e[1] = "CellDep "

IsCellDepsErr(e) == IsCountErr(e) \/ IsPerIndexErr(e)

IsDepTypeErr(e, i) ==
    /\ e[1] = "CellDep "
    /\ e[2] = i
    /\ e[3] = " depType mismatch: expected "

NotCodeHashErr(e) == ~IsCodeHashErr(e)

\* the out-points at position k (from 1) are both present and equal up to
\* letter case of txHash and numeric value of index
SameOutPoint(k) ==
    /\ SDKDeps[k].outPoint # Absent
    /\ RefDeps[k].outPoint # Absent
    /\ LET a == Get(SDKDeps[k].outPoint)
           e == Get(RefDeps[k].outPoint)
       IN /\ a.txHash # Absent /\ e.txHash # Absent
          /\ ToLowerCase(Get(a.txHash)) = ToLowerCase(Get(e.txHash))
          /\ a.index # Absent /\ e.index # Absent
          /\ ~ToNumber(Get(a.index)).nan
          /\ ToNumber(Get(a.index)) = ToNumber(Get(e.index))

----------------------------------------------------------------------------
(* C1..C10                                                                 *)

\* C1: a call whose scriptName is not a key of the deployments map returns
\* isValid = false and exactly the one error "Script '<scriptName>' not
\* found in deployments".
C1_UnknownScript ==
    (Returned /\ Args.scriptName \notin DOMAIN deployments)
        => /\ Res.isValid = FALSE
           /\ Len(Res.errors) = 1
           /\ Res.errors[1] = <<"Script '", Args.scriptName,
                                "' not found in deployments">>

\* an unknown script was validated with a codeHash and a cellDeps list that
\* the later checks could have complained about
C1_Witness ==
    /\ Returned
    /\ Args.scriptName \notin DOMAIN deployments
    /\ DOMAIN deployments # {}
    /\ Args.sdkScriptInfo.codeHash # Absent
    /\ Args.sdkScriptInfo.cellDeps # Absent
    /\ Len(Get(Args.sdkScriptInfo.cellDeps)) = 2

\* C2: for a known script whose record has no sub-record for the requested
\* network the call returns isValid = false and exactly the one error
\* "No <network> configuration found for script '<scriptName>'", whether or
\* not the other network's sub-record is present.
C2_NoNetwork ==
    (KnownScript /\ RefInfoOpt = Absent)
        => /\ Res.isValid = FALSE
           /\ Len(Res.errors) = 1
           /\ Res.errors[1] = <<"No ", Args.network,
                                " configuration found for script '",
                                Args.scriptName, "'">>

\* the requested network is missing while the other one is present
C2_Witness ==
    /\ KnownScript
    /\ RefInfoOpt = Absent
    /\ OtherInfoOpt # Absent
    /\ Args.sdkScriptInfo.cellDeps # Absent
    /\ ~Res.isValid

\* C3: in every returned result isValid is true iff errors is empty.
C3_ValidIffNoErrors ==
    Returned => (Res.isValid <=> Res.errors = << >>)

\* a result that went through all checks and collected several errors
C3_Witness ==
    /\ Compared
    /\ Len(Res.errors) >= 3
    /\ ~Res.isValid

\* C4: when the sub-record is present with both hashes, the descriptor's
\* codeHash equals the selected hash up to letter case, and the two cellDeps
\* lists have the same length with equal depType, txHash equal up to letter
\* case and numerically equal index at every position, the result is valid
\* and has no error.
C4_MatchIsValid ==
    (/\ BothDepLists
     /\ Args.sdkScriptInfo.codeHash # Absent
     /\ ToLowerCase(Get(Args.sdkScriptInfo.codeHash))
            = ToLowerCase(Get(SelectedHashOpt))
     /\ Len(SDKDeps) = Len(RefDeps)
     /\ \A k \in 1..Len(RefDeps) :
            /\ SDKDeps[k].depType = RefDeps[k].depType
            /\ SameOutPoint(k))
        => /\ Res.isValid = TRUE
           /\ Res.errors = << >>

\* a valid result for a descriptor that differs from the reference in the
\* letter case of codeHash and txHash and in the base of index
C4_Witness ==
    /\ BothDepLists
    /\ Res.isValid
    /\ Args.sdkScriptInfo.codeHash # Absent
    /\ Get(Args.sdkScriptInfo.codeHash) # Get(SelectedHashOpt)
    /\ Len(RefDeps) = 2
    /\ Len(SDKDeps) = 2
    /\ SDKDeps[1].depType = RefDeps[1].depType
    /\ SDKDeps[2].depType = RefDeps[2].depType
    /\ Get(SDKDeps[1].outPoint).txHash # Get(RefDeps[1].outPoint).txHash
    /\ Get(SDKDeps[1].outPoint).index # Get(RefDeps[1].outPoint).index

\* C5: past the early returns, a CodeHash mismatch error (carrying the
\* expected and the reported hash) is present iff the two hashes differ
\* after lower-casing, it comes first, and the remaining errors are those
\* the same descriptor gets when it reports the expected hash: the mismatch
\* does not cut the cellDeps checks short.
C5_CodeHashCaseInsensitive ==
    Compared =>
        LET expected == Get(SelectedHashOpt)
            differ == ToLowerCase(SDKHash) # ToLowerCase(expected)
            matching == [Args.sdkScriptInfo EXCEPT !.codeHash = Some(expected)]
            rest == ValidateSDKScript(deployments, Args.scriptName,
                                      Args.network, matching).errors
        IN /\ differ => /\ Len(Res.errors) >= 1
                        /\ IsCodeHashErr(Res.errors[1])
                        /\ Res.errors[1][2] = expected
                        /\ Res.errors[1][4] = SDKHash
                        /\ Tail(Res.errors) = rest
           /\ ~differ => /\ \A k \in 1..Len(Res.errors) :
                               ~IsCodeHashErr(Res.errors[k])
                         /\ Res.errors = rest

\* a CodeHash mismatch together with a count mismatch in one result
C5_Witness ==
    /\ BothDepLists
    /\ Len(Res.errors) = 2
    /\ IsCodeHashErr(Res.errors[1])
    /\ IsCountErr(Res.errors[2])

\* C6: the expected variant is chosen by the descriptor's hashType alone:
\* the expected codeHash is the sub-record's typeHash for hashType type and
\* its dataHash for data, data1 and data2, whatever codeHash and cellDeps the
\* descriptor reports, and the expected cellDeps is the sub-record's one
\* cellDeps list in both cases; the errors quote these expected values.
C6_VariantSelection ==
    Compared =>
        LET sdk == Args.sdkScriptInfo
            hash == IF sdk.hashType = "type"
                    THEN Get(RefInfo.typeHash) ELSE Get(RefInfo.dataHash)
        IN /\ \A h \in SDKCodeHashes, c \in {Absent, Some(<< >>), sdk.cellDeps} :
                LET e == ExpectedScript(RefInfo,
                             [sdk EXCEPT !.codeHash = h, !.cellDeps = c])
                IN e.codeHash = hash /\ e.cellDeps = RefInfo.cellDeps
           /\ (\E k \in 1..Len(Res.errors) : IsCodeHashErr(Res.errors[k]))
                 <=> ToLowerCase(SDKHash) # ToLowerCase(hash)
           /\ \A k \in 1..Len(Res.errors) :
                 /\ IsCodeHashErr(Res.errors[k]) => Res.errors[k][2] = hash
                 /\ IsCountErr(Res.errors[k])
                       => /\ RefInfo.cellDeps # Absent
                          /\ Res.errors[k][2] = Len(RefDeps)

\* a type descriptor reporting the data hash: the choice of variant decides
C6_Witness ==
    /\ BothDepLists
    /\ Args.sdkScriptInfo.hashType = "type"
    /\ ToLowerCase(SDKHash) = ToLowerCase(Get(RefInfo.dataHash))
    /\ Len(Res.errors) = 1
    /\ IsCodeHashErr(Res.errors[1])
    /\ Res.errors[1][2] = Get(RefInfo.typeHash)

\* C7: for a known script with the network sub-record present the call
\* returns the single missing-hash-fields error exactly when the hash of the
\* variant the descriptor's hashType selects is absent.
C7_MissingSelectedHashOnly ==
    HasInfo =>
        ((/\ Len(Res.errors) = 1
          /\ Res.errors[1][1] = "Missing required hash fields in ")
            <=> SelectedHashOpt = Absent)

\* C8: no result ever holds a HashType mismatch error, whatever hashType
\* the descriptor claims and whatever the reference record holds.
C8_NoHashTypeError ==
    Returned => \A k \in 1..Len(Res.errors) : ~IsHashTypeErr(Res.errors[k])

\* a data1 descriptor went through the comparisons and was found valid
C8_Witness ==
    /\ BothDepLists
    /\ Args.sdkScriptInfo.hashType = "data1"
    /\ Len(RefDeps) >= 1
    /\ Res.isValid

\* C9: when both cellDeps lists are present and differ in length, the
\* cellDeps errors of the result are exactly the one count-mismatch error
\* with the reference length and the descriptor's length.
C9_CountMismatchOnly ==
    (BothDepLists /\ Len(SDKDeps) # Len(RefDeps))
        => LET depErrors == SelectSeq(Res.errors, IsCellDepsErr)
           IN /\ Len(depErrors) = 1
              /\ IsCountErr(depErrors[1])
              /\ depErrors[1][2] = Len(RefDeps)
              /\ depErrors[1][4] = Len(SDKDeps)

\* two cellDeps against a reference of one, the first of them differing
\* from the reference in txHash and index
C9_Witness ==
    /\ BothDepLists
    /\ Len(RefDeps) = 1
    /\ Len(SDKDeps) = 2
    /\ RefDeps[1].outPoint # Absent
    /\ SDKDeps[1].outPoint # Absent
    /\ ~SameOutPoint(1)
    /\ Len(Res.errors) = 1

\* C10: when both cellDeps lists are present and equally long, a depType
\* that differs at index i makes the result invalid with an error naming
\* index i and depType.
C10_DepTypeCompared ==
    (BothDepLists /\ Len(SDKDeps) = Len(RefDeps))
        => \A k \in 1..Len(RefDeps) :
              SDKDeps[k].depType # RefDeps[k].depType
                  => /\ ~Res.isValid
                     /\ \E j \in 1..Len(Res.errors) :
                            IsDepTypeErr(Res.errors[j], k - 1)

----------------------------------------------------------------------------
(* C11..C20                                                                *)

IsTxHashErr(e) ==
    e[1] = "CellDep " /\ e[3] = " txHash mismatch: expected "

IsIndexErr(e) ==
    e[1] = "CellDep " /\ e[3] = " index mismatch: expected "

IsMissingOutPointErr(e) ==
    e[1] = "CellDep " /\ e[3] = " is missing outPoint"

\* both lists are present, equally long, and no element lacks its outPoint
AllOutPoints ==
    /\ BothDepLists
    /\ Len(SDKDeps) = Len(RefDeps)
    /\ \A k \in 1..Len(RefDeps) :
           SDKDeps[k].outPoint # Absent /\ RefDeps[k].outPoint # Absent

\* the txHash values at position k (from 1) differ after lower-casing
TxHashDiffers(k) ==
    ToLowerCase(OrEmpty(Get(SDKDeps[k].outPoint).txHash))
        # ToLowerCase(OrEmpty(Get(RefDeps[k].outPoint).txHash))

\* C11: with equally long lists whose elements all have an outPoint, the
\* txHash mismatch errors are in one-to-one correspondence with the indices
\* at which the txHash values differ after lower-casing: index i has exactly
\* one such error, naming i, when they differ and none when they do not.
C11_TxHashErrorPerIndex ==
    AllOutPoints =>
        /\ \A k \in 1..Len(RefDeps) :
              Cardinality({j \in 1..Len(Res.errors) :
                              IsTxHashErr(Res.errors[j])
                                  /\ Res.errors[j][2] = k - 1})
                  = IF TxHashDiffers(k) THEN 1 ELSE 0
        /\ Len(SelectSeq(Res.errors, IsTxHashErr))
              = Cardinality({k \in 1..Len(RefDeps) : TxHashDiffers(k)})

\* two entries, each differing from the reference in txHash only, gave the
\* two errors of index 0 and index 1
C11_Witness ==
    /\ AllOutPoints
    /\ Len(RefDeps) = 2
    /\ TxHashDiffers(1)
    /\ TxHashDiffers(2)
    /\ Len(Res.errors) = 2
    /\ IsTxHashErr(Res.errors[1]) /\ Res.errors[1][2] = 0
    /\ IsTxHashErr(Res.errors[2]) /\ Res.errors[2][2] = 1

\* the place of an error in the order of the checks
ErrorRank(e) ==
    IF IsCodeHashErr(e) THEN 0
    ELSE IF IsCountErr(e) THEN 1
    ELSE IF IsMissingOutPointErr(e) THEN 2 + 3 * e[2]
    ELSE IF IsTxHashErr(e) THEN 3 + 3 * e[2]
    ELSE IF IsIndexErr(e) THEN 4 + 3 * e[2]
    ELSE 0

\* C20: within one result the errors are in the order of the checks: the
\* CodeHash mismatch first, then either the count mismatch or the per-index
\* errors by ascending index, txHash before index at the same index.
C20_ErrorOrder ==
    Returned =>
        \A j, k \in 1..Len(Res.errors) :
            j < k => ErrorRank(Res.errors[j]) < ErrorRank(Res.errors[k])

\* a CodeHash mismatch followed by the txHash and the index error of index 0
\* and an error of index 1
C20_Witness ==
    /\ AllOutPoints
    /\ Len(Res.errors) >= 4
    /\ IsCodeHashErr(Res.errors[1])
    /\ IsTxHashErr(Res.errors[2]) /\ Res.errors[2][2] = 0
    /\ IsIndexErr(Res.errors[3]) /\ Res.errors[3][2] = 0
    /\ Res.errors[4][2] = 1

\* the descriptor's codeHash equals, up to letter case, the hash its
\* hashType selects
CodeHashMatches ==
    SelectedHashOpt # Absent
        /\ ToLowerCase(SDKHash) = ToLowerCase(Get(SelectedHashOpt))

\* C21: when the descriptor or the reference sub-record has no cellDeps
\* list, the result has no cellDeps error and is valid exactly when the
\* codeHash matches; an empty list of the descriptor against a non-empty
\* list of the reference gets the count-mismatch error.
C21_NoDepListSkipsComparison ==
    /\ (Compared /\ (\/ Args.sdkScriptInfo.cellDeps = Absent
                     \/ RefInfo.cellDeps = Absent))
          => /\ SelectSeq(Res.errors, IsCellDepsErr) = << >>
             /\ Res.isValid <=> CodeHashMatches
    /\ (BothDepLists /\ SDKDeps = << >> /\ RefDeps # << >>)
          => /\ ~Res.isValid
             /\ Len(SelectSeq(Res.errors, IsCountErr)) = 1

\* a descriptor without cellDeps list was found valid against a reference
\* with two cellDeps
C21_Witness ==
    /\ Compared
    /\ Args.sdkScriptInfo.cellDeps = Absent
    /\ RefInfo.cellDeps # Absent
    /\ Len(RefDeps) = 2
    /\ CodeHashMatches
    /\ Res.isValid
    /\ Res.errors = << >>

\* position k (from 1) lacks an outPoint on one side or the other
MissingOutPoint(k) ==
    SDKDeps[k].outPoint = Absent \/ RefDeps[k].outPoint = Absent

\* the places of the errors that name the JS index i
ErrorsAt(i) ==
    {j \in 1..Len(Res.errors) :
        IsPerIndexErr(Res.errors[j]) /\ Res.errors[j][2] = i}

\* C22: with equally long lists, a position that lacks an outPoint on
\* either side gets exactly one error, 'CellDep <i> is missing outPoint',
\* and no txHash or index error; the positions after it are compared all
\* the same: they get their own missing-outPoint or txHash errors.
C22_MissingOutPointPerIndex ==
    (BothDepLists /\ Len(SDKDeps) = Len(RefDeps)) =>
        \A k \in 1..Len(RefDeps) :
            /\ MissingOutPoint(k)
                  => /\ Cardinality(ErrorsAt(k - 1)) = 1
                     /\ \A j \in ErrorsAt(k - 1) :
                           IsMissingOutPointErr(Res.errors[j])
            /\ ~MissingOutPoint(k)
                  => /\ \A j \in ErrorsAt(k - 1) :
                           ~IsMissingOutPointErr(Res.errors[j])
                     /\ TxHashDiffers(k)
                           <=> \E j \in ErrorsAt(k - 1) :
                                  IsTxHashErr(Res.errors[j])

\* the descriptor's first cellDep has no outPoint and its second differs
\* from the reference in txHash: one error for each, in that order
C22_Witness ==
    /\ BothDepLists
    /\ Len(RefDeps) = 2
    /\ Len(SDKDeps) = 2
    /\ SDKDeps[1].outPoint = Absent
    /\ RefDeps[1].outPoint # Absent
    /\ ~MissingOutPoint(2)
    /\ TxHashDiffers(2)
    /\ Len(Res.errors) >= 2
    /\ IsMissingOutPointErr(Res.errors[1]) /\ Res.errors[1][2] = 0
    /\ IsTxHashErr(Res.errors[2]) /\ Res.errors[2][2] = 1

----------------------------------------------------------------------------
(* The index comparison on its own: one reference cellDeps list of two     *)
(* entries whose second index string varies, against descriptors whose     *)
(* second index string varies.                                             *)

\* index strings and the numbers they denote: decimal, hexadecimal with a
\* lower- or upper-case prefix and digit, with leading zeros
IndexValues ==
    {<<<<"0">>, 0>>,
     <<<<"1">>, 1>>,
     <<<<"2">>, 2>>,
     <<<<"1", "0">>, 10>>,
     <<<<"0", "1", "0">>, 10>>,
     <<<<"0", "x", "a">>, 10>>,
     <<<<"0", "x", "0", "a">>, 10>>,
     <<<<"0", "X", "A">>, 10>>,
     <<<<"0", "x", "1">>, 1>>,
     <<<<"0", "x", "1", "0">>, 16>>}

\* index strings that denote no number
IndexNonNumbers == {<<"0", "x">>, <<"a">>, <<"1", "x">>}

\* what outPoint.index can hold: undefined, '' or one of the strings above
IndexOpts ==
    {Absent, Some(<< >>)}
        \cup {Some(p[1]) : p \in IndexValues}
        \cup {Some(n) : n \in IndexNonNumbers}

IndexedDep(txHash, index) ==
    CellDep("code", Some([txHash |-> Some(txHash), index |-> index]))

IndexDirectory(index) ==
    Directory(<<JsonFile("always_success",
        Some(ScriptDeployment("always_success",
            Some(DeploymentInfo(Some(HexUpperAB), Some(HexMixedCD),
                     Some(<<RefCode, IndexedDep(HexLowerAB, index)>>))),
            Absent)))>>)

InitIndex ==
    \E index \in IndexOpts :
        LET loaded == Construct(IndexDirectory(index))
        IN /\ ctor = IF loaded.threw THEN "threw" ELSE "ok"
           /\ dir = IndexDirectory(index)
           /\ deployments = loaded.deployments
           /\ call = Absent
           /\ result = Absent
           /\ seen = << >>
           /\ console = << >>
           /\ batch = Absent
           /\ test = Absent

\* one call of validateSDKScript whose second cellDep carries the index
ValidateIndex ==
    /\ ctor = "ok"
    /\ call = Absent
    /\ batch = Absent
    /\ \E first \in {RefCode, RefNoOutPoint},
          txHash \in {HexUpperAB, HexLowerCD},
          index \in IndexOpts :
          LET sdkScriptInfo ==
                  [codeHash |-> Some(HexLowerAB), hashType |-> "data",
                   cellDeps |-> Some(<<first, IndexedDep(txHash, index)>>)]
          IN /\ call' = Some([scriptName |-> "always_success",
                              network |-> "mainnet",
                              sdkScriptInfo |-> sdkScriptInfo])
             /\ result' = Some(ValidateSDKScript(deployments, "always_success",
                                                 "mainnet", sdkScriptInfo))
    /\ UNCHANGED <<validatorVars, seen, console, batch, test>>

NextIndex == ValidateIndex \/ Return

SpecIndex == InitIndex /\ [][NextIndex]_vars

\* the index string o denotes a number, and which
DenotesNumber(o) == o # Absent /\ \E p \in IndexValues : p[1] = Get(o)

DenotedNumber(o) == (CHOOSE p \in IndexValues : p[1] = Get(o))[2]

HasIndexErrAt(i) ==
    \E j \in 1..Len(Res.errors) :
        IsIndexErr(Res.errors[j]) /\ Res.errors[j][2] = i

\* C12: at a position where both out-points exist and both index strings
\* denote numbers, an index mismatch error naming the position is present
\* iff the two numbers differ, whatever the string forms: '10', '010',
\* '0xa', '0x0a' and '0XA' all compare equal.
C12_IndexByNumber ==
    (BothDepLists /\ Len(SDKDeps) = Len(RefDeps)) =>
        \A k \in 1..Len(RefDeps) :
            (/\ SDKDeps[k].outPoint # Absent
             /\ RefDeps[k].outPoint # Absent
             /\ DenotesNumber(Get(SDKDeps[k].outPoint).index)
             /\ DenotesNumber(Get(RefDeps[k].outPoint).index))
                => (HasIndexErrAt(k - 1)
                      <=> DenotedNumber(Get(SDKDeps[k].outPoint).index)
                            # DenotedNumber(Get(RefDeps[k].outPoint).index))

\* decimal '10' in the reference against hexadecimal '0xa' in the descriptor
\* was found valid
C12_Witness ==
    /\ BothDepLists
    /\ Len(RefDeps) = 2
    /\ Len(SDKDeps) = 2
    /\ SDKDeps[2].outPoint # Absent
    /\ Get(RefDeps[2].outPoint).index = Some(<<"1", "0">>)
    /\ Get(SDKDeps[2].outPoint).index = Some(<<"0", "x", "a">>)
    /\ Res.isValid

\* the index fields at position k (from 1), both out-points being there
SDKIndex(k) == Get(SDKDeps[k].outPoint).index

RefIndex(k) == Get(RefDeps[k].outPoint).index

\* an index that is undefined or ''
NoIndex(o) == o = Absent \/ o = Some(<< >>)

\* C23: at a position where both out-points exist, no index mismatch error
\* is produced when the two index fields hold the identical string, be it
\* a number or not, nor when one side is absent or empty and the other is
\* '0'.
C23_IndexReflexive ==
    (BothDepLists /\ Len(SDKDeps) = Len(RefDeps)) =>
        \A k \in 1..Len(RefDeps) :
            (/\ SDKDeps[k].outPoint # Absent
             /\ RefDeps[k].outPoint # Absent
             /\ \/ SDKIndex(k) # Absent /\ SDKIndex(k) = RefIndex(k)
                \/ NoIndex(SDKIndex(k)) /\ RefIndex(k) = Some(<<"0">>)
                \/ NoIndex(RefIndex(k)) /\ SDKIndex(k) = Some(<<"0">>))
                => ~HasIndexErrAt(k - 1)

----------------------------------------------------------------------------
(* Repeated calls and validate(): a validator that is asked about a few    *)
(* scripts again and again, one at a time and in batches.                  *)

\* longest list getSDKScriptInfo returns
MaxBatch == 3

SDKScriptInfo(name, network, scriptInfo) ==
    [name |-> name, network |-> network, scriptInfo |-> scriptInfo]

ScriptInfo(codeHash, hashType, cellDeps) ==
    [codeHash |-> Some(codeHash), hashType |-> hashType,
     cellDeps |-> Some(cellDeps)]

\* what an adapter reports: a script that matches its record when the
\* record has its hashes, one with a wrong codeHash, one unknown, one on a
\* network without record, and one that matches a record that always has
\* its hashes
EngineScripts ==
    {SDKScriptInfo("always_success", "mainnet",
        ScriptInfo(HexLowerAB, "data",
            <<CellDep("dep_group", Some(OutPoint(HexLowerAB, <<"1">>)))>>)),
     SDKScriptInfo("always_success", "mainnet",
        ScriptInfo(HexLowerCD, "data1",
            <<CellDep("dep_group", Some(OutPoint(HexLowerAB, <<"1">>)))>>)),
     SDKScriptInfo("foo", "mainnet", ScriptInfo(HexLowerAB, "data", << >>)),
     SDKScriptInfo("always_success", "testnet",
        ScriptInfo(HexLowerAB, "type", << >>)),
     SDKScriptInfo("xudt", "mainnet",
        ScriptInfo(HexLowerCD, "type",
            <<CellDep("code", Some(OutPoint(HexLowerCD, <<"2">>)))>>))}

\* the two directories of Directories whose always_success record has both
\* hashes, respectively lacks its dataHash, with one cellDep
EngineDirectories ==
    {Directory(
        <<JsonFile("always_success",
              Some(ScriptDeployment("always_success", Some(i), Absent))),
          JsonFile("xudt",
              Some(ScriptDeployment("xudt",
                      Some(DeploymentInfo(Some(HexLowerAB), Some(HexLowerCD),
                                          Some(<<RefCode>>))),
                      Some(i))))>>) :
        i \in {DeploymentInfo(Some(HexUpperAB), Some(HexMixedCD),
                              Some(<<RefDepGroup>>)),
               DeploymentInfo(Absent, Some(HexMixedCD),
                              Some(<<RefDepGroup>>))}}

InitEngine ==
    \E d \in EngineDirectories :
        LET loaded == Construct(d)
        IN /\ ctor = IF loaded.threw THEN "threw" ELSE "ok"
           /\ dir = d
           /\ deployments = loaded.deployments
           /\ call = Absent
           /\ result = Absent
           /\ seen = << >>
           /\ console = << >>
           /\ batch = Absent
           /\ test = Absent

\* the observer notes the first result of a call and whether it was repeated
Note(log, script, r) ==
    IF script \in DOMAIN log
    THEN [log EXCEPT ![script].repeated = TRUE]
    ELSE MapSet(log, script, [first |-> r, repeated |-> FALSE])

\* toLowerCase applied to the hashes of every record of the map
LowerInfo(o) ==
    IF o = Absent THEN o
    ELSE Some([Get(o) EXCEPT
                 !.dataHash = IF @ = Absent THEN @
                              ELSE Some(ToLowerCase(Get(@))),
                 !.typeHash = IF @ = Absent THEN @
                              ELSE Some(ToLowerCase(Get(@)))])

LowerHashes(deps) ==
    [n \in DOMAIN deps |->
        [deps[n] EXCEPT !.mainnet = LowerInfo(@), !.testnet = LowerInfo(@)]]

\* ValidateRecorded with validateSDKScript lower-casing the reference hashes
\* in place
ValidateRecordedNormalising ==
    /\ ctor = "ok"
    /\ call = Absent
    /\ batch = Absent
    /\ \E script \in EngineScripts :
          LET r == ValidateSDKScript(deployments, script.name,
                                     script.network, script.scriptInfo)
          IN /\ call' = Some([scriptName |-> script.name,
                              network |-> script.network,
                              sdkScriptInfo |-> script.scriptInfo])
             /\ result' = Some(r)
             /\ seen' = Note(seen, script, r)
    /\ deployments' = LowerHashes(deployments)
    /\ UNCHANGED <<ctor, dir, console, batch, test>>

\* ValidateRecorded with validateSDKScript logging the errors it found
ValidateRecordedLogging ==
    /\ ctor = "ok"
    /\ call = Absent
    /\ batch = Absent
    /\ \E script \in EngineScripts :
          LET r == ValidateSDKScript(deployments, script.name,
                                     script.network, script.scriptInfo)
          IN /\ call' = Some([scriptName |-> script.name,
                              network |-> script.network,
                              sdkScriptInfo |-> script.scriptInfo])
             /\ result' = Some(r)
             /\ seen' = Note(seen, script, r)
             /\ console' = console \o r.errors
    /\ UNCHANGED <<validatorVars, batch, test>>

\* one call of validateSDKScript for one of the adapter's scripts
ValidateRecorded ==
    /\ ctor = "ok"
    /\ call = Absent
    /\ batch = Absent
    /\ \E script \in EngineScripts :
          LET r == ValidateSDKScript(deployments, script.name,
                                     script.network, script.scriptInfo)
          IN /\ call' = Some([scriptName |-> script.name,
                              network |-> script.network,
                              sdkScriptInfo |-> script.scriptInfo])
             /\ result' = Some(r)
             /\ seen' = Note(seen, script, r)
    /\ UNCHANGED <<validatorVars, console, batch, test>>

\* console.error(`Validation failed for ${script.name}:`) and one line per
\* error
FailureLines(script, r) ==
    <<<<"Validation failed for ", script.name, ":">>>>
        \o [k \in 1..Len(r.errors) |-> <<" - ", r.errors[k]>>]

\* ValidateLoop leaving the loop at the first invalid result
RECURSIVE ValidateLoopStopsAtInvalid(_, _, _, _, _)
ValidateLoopStopsAtInvalid(deps, sdkScripts, i, results, lines) ==
    IF i > Len(sdkScripts)
    THEN [results |-> results, lines |-> lines]
    ELSE LET script == sdkScripts[i]
             r == ValidateSDKScript(deps, script.name, script.network,
                                    script.scriptInfo)
         IN IF r.isValid
            THEN ValidateLoopStopsAtInvalid(deps, sdkScripts, i + 1,
                                            Append(results, r), lines)
            ELSE [results |-> Append(results, r),
                  lines |-> lines \o FailureLines(script, r)]

\* for (const script of sdkScripts), from script number i on
RECURSIVE ValidateLoop(_, _, _, _, _)
ValidateLoop(deps, sdkScripts, i, results, lines) ==
    IF i > Len(sdkScripts)
    THEN [results |-> results, lines |-> lines]
    ELSE LET script == sdkScripts[i]
             r == ValidateSDKScript(deps, script.name, script.network,
                                    script.scriptInfo)
         IN ValidateLoop(deps, sdkScripts, i + 1, Append(results, r),
                         IF r.isValid THEN lines
                         ELSE lines \o FailureLines(script, r))

\* what getSDKScriptInfo can do: throw, or return a list of scripts
AdapterOutcomes ==
    {Absent} \cup {Some(l) : l \in SeqsUpTo(EngineScripts, MaxBatch)}

\* validate(), given what getSDKScriptInfo did: the returned results (none
\* when the adapter threw and validate rejects) and the lines logged
ValidateBatch(deps, outcome) ==
    IF outcome = Absent
    THEN [results |-> Absent, lines |-> << >>]
    ELSE LET done == ValidateLoop(deps, Get(outcome), 1, << >>, << >>)
         IN [results |-> Some(done.results), lines |-> done.lines]

\* one call of validate() on a constructed validator
ValidateAll ==
    /\ ctor = "ok"
    /\ call = Absent
    /\ batch = Absent
    /\ \E outcome \in AdapterOutcomes :
          LET done == ValidateBatch(deployments, outcome)
          IN /\ batch' = Some([sdkScripts |-> outcome,
                               results |-> done.results])
             /\ console' = console \o done.lines
    /\ UNCHANGED <<validatorVars, call, result, seen, test>>

\* the caller takes the results and the terminal is cleared
ReturnAll ==
    /\ batch # Absent
    /\ test = Absent
    /\ batch' = Absent
    /\ console' = << >>
    /\ UNCHANGED <<validatorVars, call, result, seen, test>>

NextEngine == ValidateRecorded \/ Return \/ ValidateAll \/ ReturnAll

SpecEngine == InitEngine /\ [][NextEngine]_vars

\* the call in progress, as the observer files it
ArgsScript == SDKScriptInfo(Args.scriptName, Args.network, Args.sdkScriptInfo)

\* C13: a call with the arguments of an earlier call returns a result equal
\* to the first one in scriptName, network, isValid, errors and warnings,
\* whatever single calls and batches were made in between.
C13_SameCallSameResult ==
    (Returned /\ ArgsScript \in DOMAIN seen)
        => LET first == seen[ArgsScript].first
           IN /\ Res.scriptName = first.scriptName
              /\ Res.network = first.network
              /\ Res.isValid = first.isValid
              /\ Res.errors = first.errors
              /\ Res.warnings = first.warnings

\* an invalid call is being repeated after calls with other arguments
C13_Witness ==
    /\ Returned
    /\ ArgsScript \in DOMAIN seen
    /\ seen[ArgsScript].repeated
    /\ ~Res.isValid
    /\ Cardinality(DOMAIN seen) >= 3

BatchDone == batch # Absent /\ Get(batch).sdkScripts # Absent

BatchScripts == Get(Get(batch).sdkScripts)

BatchResults == Get(Get(batch).results)

\* C14: validate() returns one result per script of getSDKScriptInfo, in the
\* same order, the i-th being the result of validating the i-th script on
\* its own; a script that is unknown, has no network sub-record or lacks
\* hash fields gives an invalid result at its place and the scripts after
\* it are validated all the same.
C14_BatchPerScript ==
    BatchDone =>
        /\ Get(batch).results # Absent
        /\ Len(BatchResults) = Len(BatchScripts)
        /\ \A i \in 1..Len(BatchScripts) :
              LET script == BatchScripts[i]
              IN /\ BatchResults[i]
                       = ValidateSDKScript(deployments, script.name,
                                           script.network, script.scriptInfo)
                 /\ BatchResults[i].scriptName = script.name
                 /\ BatchResults[i].network = script.network
                 /\ (\/ script.name \notin DOMAIN deployments
                     \/ SelectNetwork(deployments[script.name],
                                      script.network) = Absent
                     \/ Get(SelectNetwork(deployments[script.name],
                                          script.network)).dataHash = Absent
                     \/ Get(SelectNetwork(deployments[script.name],
                                          script.network)).typeHash = Absent)
                       => ~BatchResults[i].isValid

\* an unknown script first, a script whose record lacks a hash second, and
\* a valid result after them
C14_Witness ==
    /\ BatchDone
    /\ Len(BatchScripts) = 3
    /\ BatchScripts[1].name \notin DOMAIN deployments
    /\ BatchScripts[2].name \in DOMAIN deployments
    /\ SelectNetwork(deployments[BatchScripts[2].name],
                     BatchScripts[2].network) # Absent
    /\ Get(SelectNetwork(deployments[BatchScripts[2].name],
                         BatchScripts[2].network)).dataHash = Absent
    /\ Len(BatchResults) = 3
    /\ ~BatchResults[1].isValid
    /\ ~BatchResults[2].isValid
    /\ BatchResults[3].isValid

\* C17: no step changes the deployments map, and a step that is a call of
\* validateSDKScript writes nothing to the console and changes nothing else
\* of the validator.
C17_StoreReadOnly ==
    [][/\ deployments' = deployments
       /\ (call = Absent /\ call' # Absent)
             => /\ console' = console
                /\ dir' = dir
                /\ ctor' = ctor]_vars

\* calls with invalid outcomes were made, singly and in a batch that logged
\* its failures
C17_Witness ==
    /\ BatchDone
    /\ console # << >>
    /\ Cardinality(DOMAIN seen) >= 2
    /\ \E script \in DOMAIN seen : ~seen[script].first.isValid
    /\ DOMAIN deployments # {}

----------------------------------------------------------------------------
(* Loading: validators constructed over directory listings of up to        *)
(* MaxFiles files, each then running batches.                              *)

MaxFiles == 3

LoadInfo == DeploymentInfo(Some(HexLowerAB), Some(HexLowerCD), Some(<<RefCode>>))

\* the files a deployments directory is made of: two records named
\* always_success with different content, a record in a file named like it,
\* a record in a file named otherwise, a file that is not a record and a
\* .json file that does not parse
LoadFiles ==
    {JsonFile("always_success",
        Some(ScriptDeployment("always_success", Some(LoadInfo), Absent))),
     JsonFile("always_success_v2",
        Some(ScriptDeployment("always_success", Absent, Some(LoadInfo)))),
     JsonFile("xudt",
        Some(ScriptDeployment("xudt", Some(LoadInfo), Some(LoadInfo)))),
     JsonFile("misc",
        Some(ScriptDeployment("foo", Some(LoadInfo), Absent))),
     OtherFile("README"),
     JsonFile("broken", Absent)}

LoadDirectories ==
    {Unreadable} \cup {Directory(files) : files \in SeqsUpTo(LoadFiles, MaxFiles)}

InitLoad ==
    \E d \in LoadDirectories :
        LET loaded == Construct(d)
        IN /\ ctor = IF loaded.threw THEN "threw" ELSE "ok"
           /\ dir = d
           /\ deployments = loaded.deployments
           /\ call = Absent
           /\ result = Absent
           /\ seen = << >>
           /\ console = << >>
           /\ batch = Absent
           /\ test = Absent

NextLoad == ValidateAll \/ ReturnAll

SpecLoad == InitLoad /\ [][NextLoad]_vars

\* the places of the listing that hold a record file
RecordPlaces == {i \in 1..Len(dir.files) : dir.files[i].ext = ".json"}

Malformed(i) == dir.files[i].content = Absent

RecordAt(i) == Get(dir.files[i].content)

\* the last place of the listing whose record has the name n
LastPlace(n) ==
    CHOOSE i \in RecordPlaces :
        /\ RecordAt(i).name = n
        /\ \A j \in RecordPlaces : RecordAt(j).name = n => j <= i

\* C15: after a load that went through, the map has exactly the names of
\* the record files' name fields as keys (whatever the files are called),
\* and the entry of a name is the last record of the listing with that name.
C15_KeyedByNameLastWins ==
    ctor = "ok" =>
        /\ DOMAIN deployments = {RecordAt(i).name : i \in RecordPlaces}
        /\ \A n \in DOMAIN deployments :
              deployments[n] = RecordAt(LastPlace(n))

\* two records of one name with different content were loaded, with a
\* record of another name in a file not named like it, and a batch has run
\* on the map
C15_Witness ==
    /\ ctor = "ok"
    /\ BatchDone
    /\ Len(BatchScripts) >= 1
    /\ \E i, j \in RecordPlaces :
          /\ i < j
          /\ RecordAt(i).name = RecordAt(j).name
          /\ RecordAt(i) # RecordAt(j)
          /\ deployments[RecordAt(j).name] = RecordAt(j)
    /\ \E i \in RecordPlaces :
          /\ dir.files[i].stem # RecordAt(i).name
          /\ dir.files[i].stem \notin DOMAIN deployments
          /\ RecordAt(i).name \in DOMAIN deployments
    /\ Cardinality(DOMAIN deployments) = 2

\* C16: a directory that cannot be read, or one .json file that does not
\* parse, makes construction throw; a validator whose construction threw
\* makes no call, and every call and batch runs on the map of all the
\* record files of the listing.
C16_LoadFailFast ==
    /\ (~dir.readable \/ \E i \in RecordPlaces : Malformed(i))
          => ctor = "threw"
    /\ ctor = "threw"
          => call = Absent /\ result = Absent /\ batch = Absent
    /\ (call # Absent \/ batch # Absent)
          => /\ dir.readable
             /\ \A i \in RecordPlaces :
                   /\ ~Malformed(i)
                   /\ RecordAt(i).name \in DOMAIN deployments

\* construction threw at a file that does not parse after a record had been
\* read
C16_Witness ==
    /\ ctor = "threw"
    /\ dir.readable
    /\ Len(dir.files) >= 2
    /\ dir.files[1].ext = ".json"
    /\ ~Malformed(1)
    /\ \E i \in RecordPlaces : i > 1 /\ Malformed(i)
    /\ deployments # EmptyMap
    /\ batch = Absent

----------------------------------------------------------------------------
(* DynamicSDKTester.testSDK: a temporary directory, installation of the    *)
(* package, the registered validator built on the default deployments      *)
(* directory, one batch, the tally, and the clean-up.                      *)

\* validators: the registry of adapters by package name
RegisteredPackages == {"@ckb-ccc/core"}

Packages == RegisteredPackages \cup {"ckb-sdk-js"}

\* how installPackage can end: loaded, pnpm exiting with a code other than
\* 0, the child process failing to spawn, require throwing
Installs == {"ok", "exit", "spawn", "load"}

Versions == {Absent, Some("1.0.0")}

\* what the surroundings do during one call.  The choices that matter only
\* once the adapter has answered are drawn only for calls that get there.
EarlyEnvs ==
    [packageName : Packages, mkdtemp : BOOLEAN, write : BOOLEAN,
     install : Installs, version : {Absent}, firstOk : BOOLEAN,
     secondOk : {TRUE}, scripts : {<< >>}, rm : BOOLEAN]

RunEnvs ==
    [packageName : RegisteredPackages, mkdtemp : {TRUE}, write : {TRUE},
     install : {"ok"}, version : Versions, firstOk : {TRUE},
     secondOk : BOOLEAN, scripts : SeqsUpTo(EngineScripts, MaxBatch),
     rm : BOOLEAN]

TestEnvs == EarlyEnvs \cup RunEnvs

\* the default deployments directory of the process: one of the engine's,
\* or none that can be read
TesterDirectories == EngineDirectories \cup {Unreadable}

\* the message of an error thrown by a call of the platform
Thrown(what) == <<"thrown by ", what>>

ErrPnpmExit(code) == <<"pnpm add exited with code ", code>>

ErrLoadPackage(packageName, message) ==
    <<"Failed to load package ", packageName, ": ", message>>

ErrNoValidator(packageName) ==
    <<"No validator found for package ", packageName>>

LogInstalling(packageName) == <<"Installing ", packageName, "@latest">>

LogLoading == <<"Loading SDK module...">>

LogLoaded(packageName, version) ==
    <<"Loaded ", packageName, " version ",
      IF version = Absent THEN "unknown" ELSE Get(version)>>

LogTesting(n) == <<"Testing against ", ToString(n), " known scripts...">>

\* the duration in the line depends on the clock and is left out
LogCompleted(passedTests, n) ==
    <<"Testing completed: ", ToString(passedTests), "/", ToString(n),
      " tests passed.">>

\* tests.push({scriptName, network, result: {isValid, errors, warnings}})
TestResult(res) ==
    [scriptName |-> res.scriptName,
     network |-> res.network,
     result |-> [isValid |-> res.isValid, errors |-> res.errors,
                 warnings |-> res.warnings]]

\* Tally counting every result as passed
RECURSIVE TallyAllPassed(_, _, _, _, _)
TallyAllPassed(results, i, tests, passedTests, failedTests) ==
    IF i > Len(results)
    THEN [tests |-> tests, passedTests |-> passedTests,
          failedTests |-> failedTests]
    ELSE TallyAllPassed(results, i + 1,
                        Append(tests, TestResult(results[i])),
                        passedTests + 1,
                        IF results[i].isValid THEN failedTests
                        ELSE failedTests + 1)

\* for (const res of result), from result number i on
RECURSIVE Tally(_, _, _, _, _)
Tally(results, i, tests, passedTests, failedTests) ==
    IF i > Len(results)
    THEN [tests |-> tests, passedTests |-> passedTests,
          failedTests |-> failedTests]
    ELSE Tally(results, i + 1,
               Append(tests, TestResult(results[i])),
               IF results[i].isValid THEN passedTests + 1 ELSE passedTests,
               IF results[i].isValid THEN failedTests
               ELSE failedTests + 1)

\* the report of the catch block (the timestamp is left out of both reports)
FailureReport(packageName, message) ==
    [sdkName |-> packageName,
     sdkVersion |-> Absent,
     success |-> FALSE,
     error |-> Some(message),
     tests |-> << >>,
     totalTests |-> 0,
     passedTests |-> 0,
     failedTests |-> 0]

\* the report returned at the end of the try block
SuccessReport(packageName, sdkVersion, tally) ==
    [sdkName |-> packageName,
     sdkVersion |-> sdkVersion,
     success |-> TRUE,
     error |-> Absent,
     tests |-> tally.tests,
     totalTests |-> Len(tally.tests),
     passedTests |-> tally.passedTests,
     failedTests |-> tally.failedTests]

\* what the try and catch blocks leave: the report, the validator that was
\* constructed if any, the batch it ran if any, the lines logged
Caught(packageName, message, c, deps, b, lines) ==
    [report |-> FailureReport(packageName, message),
     ctor |-> c, deployments |-> deps, batch |-> b, lines |-> lines]

\* what the install and load steps log
LogInstalled(env) ==
    <<LogInstalling(env.packageName), LogLoading,
      LogLoaded(env.packageName, env.version)>>

\* what the second getSDKScriptInfo, the one validate() makes, answers
SecondOutcome(env) == IF env.secondOk THEN Some(env.scripts) ELSE Absent

BatchOf(outcome, done) ==
    Some([sdkScripts |-> outcome, results |-> done.results])

\* the end of the try block: the tally is made and the report returned
Succeeded(env, made, outcome, done, tally) ==
    [report |-> SuccessReport(env.packageName, env.version, tally),
     ctor |-> "ok",
     deployments |-> made.deployments,
     batch |-> BatchOf(outcome, done),
     lines |-> LogInstalled(env) \o <<LogTesting(Len(env.scripts))>>
                 \o done.lines
                 \o <<LogCompleted(tally.passedTests, Len(tally.tests))>>]

\* const result = await validator.validate() and the loop over it
Tallied(env, made, outcome, done) ==
    IF done.results = Absent
    THEN Caught(env.packageName, Thrown("getSDKScriptInfo"), "ok",
                made.deployments, BatchOf(outcome, done),
                LogInstalled(env) \o <<LogTesting(Len(env.scripts))>>)
    ELSE Succeeded(env, made, outcome, done,
                   Tally(Get(done.results), 1, << >>, 0, 0))

\* new validatorClass(sdk), the first getSDKScriptInfo and validate()
Validated(env, made) ==
    IF made.threw
    THEN Caught(env.packageName, Thrown("loadDeployments"), "threw",
                made.deployments, Absent, LogInstalled(env))
    ELSE IF ~env.firstOk
    THEN Caught(env.packageName, Thrown("getSDKScriptInfo"), "ok",
                made.deployments, Absent, LogInstalled(env))
    ELSE Tallied(env, made, SecondOutcome(env),
                 ValidateBatch(made.deployments, SecondOutcome(env)))

\* the try block with its catch, in a temporary directory that exists
TryTestSDK(d, env) ==
    IF ~env.write
    THEN Caught(env.packageName, Thrown("writeFileSync"), "none", EmptyMap,
                Absent, << >>)
    ELSE IF env.install = "exit"
    THEN Caught(env.packageName, ErrPnpmExit("1"), "none", EmptyMap, Absent,
                <<LogInstalling(env.packageName)>>)
    ELSE IF env.install = "spawn"
    THEN Caught(env.packageName, Thrown("spawn"), "none", EmptyMap, Absent,
                <<LogInstalling(env.packageName)>>)
    ELSE IF env.install = "load"
    THEN Caught(env.packageName,
                ErrLoadPackage(env.packageName, "Cannot find module"),
                "none", EmptyMap, Absent,
                <<LogInstalling(env.packageName), LogLoading>>)
    ELSE IF env.packageName \notin RegisteredPackages
    THEN Caught(env.packageName, ErrNoValidator(env.packageName), "none",
                EmptyMap, Absent, LogInstalled(env))
    ELSE Validated(env, Construct(d))

\* the finally block: rmSync may throw, which is ignored
Finally(env, tried) ==
    [threw |-> FALSE,
     report |-> Some(tried.report),
     tempDir |-> IF env.rm THEN "removed" ELSE "left",
     ctor |-> tried.ctor,
     deployments |-> tried.deployments,
     batch |-> tried.batch,
     lines |-> tried.lines]

\* testSDK: mkdtempSync before the try; the try with its catch; the finally
RunTestSDK(d, env) ==
    IF ~env.mkdtemp
    THEN [threw |-> TRUE, report |-> Absent, tempDir |-> "none",
          ctor |-> "none", deployments |-> EmptyMap, batch |-> Absent,
          lines |-> << >>]
    ELSE Finally(env, TryTestSDK(d, env))

InitTester ==
    \E d \in TesterDirectories :
        /\ ctor = "none"
        /\ dir = d
        /\ deployments = EmptyMap
        /\ call = Absent
        /\ result = Absent
        /\ seen = << >>
        /\ console = << >>
        /\ batch = Absent
        /\ test = Absent

\* one call of testSDK
TestSDK ==
    /\ test = Absent
    /\ \E env \in TestEnvs :
          \E run \in {RunTestSDK(dir, env)} :
             /\ test' = Some([env |-> env,
                              threw |-> run.threw,
                              report |-> run.report,
                              tempDir |-> run.tempDir])
             /\ ctor' = run.ctor
             /\ deployments' = run.deployments
             /\ batch' = run.batch
             /\ console' = console \o run.lines
    /\ UNCHANGED <<dir, call, result, seen>>

\* the caller takes the report or the rejection; the validator is dropped
ReturnTest ==
    /\ test # Absent
    /\ test' = Absent
    /\ ctor' = "none"
    /\ deployments' = EmptyMap
    /\ batch' = Absent
    /\ console' = << >>
    /\ UNCHANGED <<dir, call, result, seen>>

NextTester == TestSDK \/ ReturnTest

SpecTester == InitTester /\ [][NextTester]_vars

Tested == test # Absent

Reported == Tested /\ Get(test).report # Absent

Report == Get(Get(test).report)

\* C18: a report with success = true has one test per validation result in
\* the same order; totalTests is the number of tests, passedTests the number
\* of valid results, failedTests the number of invalid ones, and the two
\* add up to totalTests.
C18_ReportCounts ==
    (Reported /\ Report.success) =>
        /\ BatchDone
        /\ Get(batch).results # Absent
        /\ Len(Report.tests) = Len(BatchResults)
        /\ \A i \in 1..Len(BatchResults) :
              /\ Report.tests[i].scriptName = BatchResults[i].scriptName
              /\ Report.tests[i].network = BatchResults[i].network
              /\ Report.tests[i].result.isValid = BatchResults[i].isValid
              /\ Report.tests[i].result.errors = BatchResults[i].errors
              /\ Report.tests[i].result.warnings = BatchResults[i].warnings
        /\ Report.totalTests = Len(Report.tests)
        /\ Report.passedTests
              = Cardinality({i \in 1..Len(BatchResults) :
                                BatchResults[i].isValid})
        /\ Report.failedTests
              = Cardinality({i \in 1..Len(BatchResults) :
                                ~BatchResults[i].isValid})
        /\ Report.passedTests + Report.failedTests = Report.totalTests

\* a report of three tests, the first and the last invalid and the second
\* valid
C18_Witness ==
    /\ Reported
    /\ Report.success
    /\ Report.totalTests = 3
    /\ Report.passedTests = 1
    /\ Report.failedTests = 2
    /\ ~Report.tests[1].result.isValid
    /\ Report.tests[2].result.isValid
    /\ ~Report.tests[3].result.isValid

\* C19: a call of testSDK does not throw; when installation fails, the
\* module cannot be loaded, no validator is registered or the adapter or the
\* validation throws, it returns a report with success = false, an error
\* message, no tests and all counts 0; and the temporary directory it
\* created is removed whether the call succeeded or failed.
C19_NeverThrowsAndCleansUp ==
    Tested =>
        /\ ~Get(test).threw
        /\ Reported
        /\ ~Report.success
              => /\ Report.error # Absent
                 /\ Report.tests = << >>
                 /\ Report.totalTests = 0
                 /\ Report.passedTests = 0
                 /\ Report.failedTests = 0
        /\ (\/ Get(test).env.install # "ok"
            \/ Get(test).env.packageName \notin RegisteredPackages
            \/ ~Get(test).env.firstOk
            \/ ~Get(test).env.secondOk)
              => ~Report.success
        /\ Get(test).tempDir # "left"

====
